---- MODULE Spec2Model ----
(***************************************************************************)
(* Admission control of the Restfull-Api server: the sliding-window rate   *)
(* limiter with permanent IP bans of src/middleware/rateLimiter.js.        *)
(*                                                                         *)
(* One process is modelled from the moment the module has been loaded      *)
(* (ensureFiles and loadBanned have run).  Node runs every handler to      *)
(* completion, all file I/O in the module is synchronous, so each handler  *)
(* is one atomic action.  Time is the millisecond clock Date.now(): every  *)
(* handler that reads the clock finds it d >= 0 ms later than the previous *)
(* reader did.  Identifiers are client address strings.                    *)
(***************************************************************************)
EXTENDS Integers, Sequences, FiniteSets, TLC

VARIABLES
    opts,          \* options object given to rateLimiterMiddleware(options)
    now,           \* the clock, Date.now()
    timerDue,      \* earliest instant at which the cleanup timer fires next
    ipTimestamps,  \* Map<string, number[]>
    banned,        \* the in-memory ban object
    disk,          \* content of data/banned-ips.json
    log,           \* lines of logs/request-logs.log
    hist,          \* history: every request, ban and unban performed, in order
    last,          \* history: the last operation, its inputs and its answer
    prev           \* history: the stores as they were before the last operation

vars == <<opts, now, timerDue, ipTimestamps, banned, disk, log, hist, last, prev>>

-----------------------------------------------------------------------------
(* Bounds of the model *)

\* operations (requests, bans, unbans) in one run
MaxOps == 4
\* calls of the exported banIp in one run
MaxBanCalls == 2

-----------------------------------------------------------------------------
(* Program constants *)

WINDOW_MS == 10000
MAX_REQUESTS == 25
CLEANUP_INTERVAL_MS == 60000

None == "<undefined>"

\* How far the clock may have moved on (ms) when a handler next reads it.
Deltas == {0, 100, 10000, 10001}

CleanupDeltas == {0, 10001}

BanDeltas == {100}

UnbanDeltas == {0, 100}

\* Options objects a gate is built with: a field that is absent is 0 here
\* (undefined and 0 are both falsy for `||`).
OptionSets ==
    { [maxRequests |-> 0, windowMs |-> 0],
      [maxRequests |-> 3, windowMs |-> 1000],
      [maxRequests |-> 1, windowMs |-> 20000] }

\* process.env.ADMIN_KEY: unset, set to the empty string, set to a secret
AdminKeys == {None, "", "s3cret"}

\* POST /admin/unban requests: the X-Admin-Key header, the parsed body (absent
\* when no body parser filled it in), and the adminKey query parameter.
Body(key, ip) == [present |-> TRUE, adminKey |-> key, ip |-> ip]

NoBody == [present |-> FALSE, adminKey |-> None, ip |-> None]

AdminRequests ==
    { [hdr |-> "s3cret", body |-> Body(None, "A"), qkey |-> None],
      [hdr |-> "s3cret", body |-> Body(None, "B"), qkey |-> None],
      [hdr |-> "s3cret", body |-> Body(None, None), qkey |-> None],
      [hdr |-> "s3cret", body |-> NoBody, qkey |-> None],
      [hdr |-> "wrong", body |-> Body("s3cret", "A"), qkey |-> None],
      [hdr |-> None, body |-> Body("s3cret", "A"), qkey |-> None],
      [hdr |-> None, body |-> Body(None, "A"), qkey |-> "s3cret"],
      [hdr |-> None, body |-> Body(None, "A"), qkey |-> None],
      [hdr |-> None, body |-> NoBody, qkey |-> None] }

NoAdminRequest == [hdr |-> None, body |-> NoBody, qkey |-> None]

\* Inbound requests: the fields the gate reads to find the client address.
ReqA == [ip |-> "A", xff |-> None, remote |-> "A"]

ReqB == [ip |-> None, xff |-> "B", remote |-> None]

\* Arrivals: a request and the time since the clock was last read.  Client B is
\* the bystander and only arrives close to the previous event.
Arrivals ==
    {[req |-> ReqA, d |-> d] : d \in Deltas} \cup {[req |-> ReqB, d |-> d] : d \in {0, 100}}

IPs == {"A", "B"}

ManualReasons == {None, "manual"}

-----------------------------------------------------------------------------
(* Helpers: JavaScript values *)

\* truthiness of a string-or-undefined value, and of a number-or-undefined
\* value (an absent number is 0 in this model)
TruthyStr(v) == v # None /\ v # ""

TruthyNum(n) == n # 0

\* a || b, on strings and on numbers
OrStr(a, b) == IF TruthyStr(a) THEN a ELSE b

OrNum(a, b) == IF TruthyNum(a) THEN a ELSE b

EmptyMap == <<>>

Pad2(n) == IF n < 10 THEN "0" \o ToString(n) ELSE ToString(n)

Pad3(n) == IF n < 10 THEN "00" \o ToString(n)
           ELSE IF n < 100 THEN "0" \o ToString(n) ELSE ToString(n)

\* new Date(t).toISOString(), for instants within the first hour of the epoch
ISO(t) ==
    "1970-01-01T00:" \o Pad2((t \div 60000) % 60) \o ":"
        \o Pad2((t \div 1000) % 60) \o "." \o Pad3(t % 1000) \o "Z"

\* Map.get(k) || []
Get(m, k) == IF k \in DOMAIN m THEN m[k] ELSE <<>>

\* Map.set(k, v) and obj[k] = v
Set(m, k, v) == (k :> v) @@ m

\* Map.delete(k) and delete obj[k]
Delete(m, k) == [x \in DOMAIN m \ {k} |-> m[x]]

\* arr.filter((t) => now - t <= w)
Recent(arr, t0, w) == SelectSeq(arr, LAMBDA t : t0 - t <= w)

-----------------------------------------------------------------------------
(* Files *)

\* JSON.stringify(banned, null, 2): the document, one member per client, each
\* with the record's own properties.
Stringify(b) ==
    {[ip |-> k, bannedAt |-> b[k].bannedAt, reason |-> b[k].reason, by |-> b[k].by] :
        k \in DOMAIN b}

\* JSON.parse(raw) of such a document
Parse(doc) ==
    [k \in {m.ip : m \in doc} |->
        LET m == CHOOSE m \in doc : m.ip = k
        IN [bannedAt |-> m.bannedAt, reason |-> m.reason, by |-> m.by]]

\* data/banned-ips.json does not exist when the process first starts.
MissingFile == [kind |-> "missing", doc |-> {}]

\* ensureFiles(): a missing ban file is created holding {}
ensureFiles(f) == IF f.kind = "missing" THEN [kind |-> "json", doc |-> Stringify(EmptyMap)] ELSE f

\* ensureFiles() throws when the ban file is missing and cannot be created:
\* its writeFileSync is in no try / catch.  ok: the write succeeds.
ensureThrows(f, ok) == f.kind = "missing" /\ ~ok

\* loadBanned(): the parsed file, {} when it is empty or cannot be read or parsed
loadBanned(f) == IF f.kind = "json" THEN Parse(f.doc) ELSE EmptyMap

\* A saveBanned that never reaches the file.
saveBannedDropped(b, f, ok) == f

\* saveBanned(): the file after writing the whole ban object; a failed write is
\* caught and leaves the file as it was
saveBanned(b, f, ok) == IF ok THEN [kind |-> "json", doc |-> Stringify(b)] ELSE f

\* A saveBanned without its try / catch: the write error escapes.
saveRethrows(ok) == ~ok

\* Whether saveBanned() throws: its catch swallows the write error.
saveThrows(ok) == FALSE

\* An appendLog without its try / catch: the append error escapes.
appendRethrows(ok) == ~ok

\* Whether appendLog() throws: its catch swallows the append error.
appendThrows(ok) == FALSE

\* An appendLog that writes the file anew instead of appending to it.
appendLogOverwriting(l, line, ok) == IF ok THEN <<line>> ELSE l

\* appendLog(line): the log after the append; a failed append is caught
appendLog(l, line, ok) == IF ok THEN Append(l, line) ELSE l

\* One line of the request log, by its tokens.
LogLine(kind, t, ip, count, reason) ==
    [kind |-> kind, at |-> ISO(t), ip |-> ip, count |-> count, reason |-> reason]

\* A request line that leaves the count out.
RequestLineNoCount(t, ip, count) == LogLine("REQ", t, ip, 0, None)

\* `[REQ] ${new Date().toISOString()} ${ip} ${req.method} ${req.path} count=${recent.length}`
RequestLine(t, ip, count) == LogLine("REQ", t, ip, count, None)

\* A blocked request logged as an ordinary one.
BlockedLineAsRequest(t, ip) == LogLine("REQ", t, ip, 1, None)

\* `[BLOCKED_REQ] ${new Date().toISOString()} ${ip} path=... method=... - blocked`
BlockedLine(t, ip) == LogLine("BLOCKED_REQ", t, ip, 0, None)

-----------------------------------------------------------------------------
(* Ban store *)

isBanned(b, ip) == ip \in DOMAIN b

\* the reason parameter's default
ReasonOrDefault(reason) == IF reason = None THEN "rate_limit_exceeded" ELSE reason

\* A banIp that loses the record: the ban object is left as it was.
banIpLost(b, ip, reason, t) == b

\* banIp: the ban object after banned[ip] = {bannedAt, reason, by}
banIp(b, ip, reason, t) ==
    Set(b, ip, [bannedAt |-> ISO(t), reason |-> reason, by |-> "rateLimiter"])

\* An unbanIp that drops every record instead of one.
unbanIpAll(b, ip) == EmptyMap

\* unbanIp: the ban object after delete banned[ip]
unbanIp(b, ip) == Delete(b, ip)

-----------------------------------------------------------------------------
(* The gate built by rateLimiterMiddleware(options) *)

maxReq == OrNum(opts.maxRequests, MAX_REQUESTS)

windowMs == OrNum(opts.windowMs, WINDOW_MS)

\* req.ip || req.headers["x-forwarded-for"] || req.connection.remoteAddress || "unknown"
ClientIp(r) == OrStr(r.ip, OrStr(r.xff, OrStr(r.remote, "unknown")))

\* A record step that appends and never prunes.
RecordNoPrune(arr, t) == Append(arr, t)

\* arr.push(now); arr.filter((t) => now - t <= windowMs)
Record(arr, t) == Recent(Append(arr, t), t, windowMs)

\* A threshold test that already fires at the limit.
ExceedsAtLimit(count) == count >= maxReq

\* recent.length > maxReq
Exceeds(count) == count > maxReq

\* `exceeded_${maxReq}_per_${windowMs}ms`
GateReason == "exceeded_" \o ToString(maxReq) \o "_per_" \o ToString(windowMs) \o "ms"

-----------------------------------------------------------------------------
(* History *)

\* What an operation answered: the HTTP status and body fields of a handler,
\* the return value of a function called directly, whether it threw; and, for
\* the admin handler, what it was called with.
NoAnswer ==
    [op |-> "init", ip |-> None, at |-> 0, status |-> 0, count |-> 0,
     ret |-> FALSE, threw |-> FALSE, bannedAt |-> None, reason |-> None,
     key |-> None, areq |-> NoAdminRequest, save |-> "none", boot |-> "none"]

Answer(op, ip, t, status) == [NoAnswer EXCEPT !.op = op, !.ip = ip, !.at = t, !.status = status]

Op(op, ip, t, status) ==
    [op |-> op, ip |-> ip, t |-> t, status |-> status, save |-> "none", reason |-> None]

\* How a call of saveBanned went.
Saved(ok) == IF ok THEN "ok" ELSE "failed"

Stores == [ipTimestamps |-> ipTimestamps, banned |-> banned, disk |-> disk, log |-> log]

-----------------------------------------------------------------------------
(* The process *)

Init ==
    /\ opts \in OptionSets
    /\ now = 0
    /\ timerDue = 0
    /\ ipTimestamps = EmptyMap
    /\ disk = ensureFiles(MissingFile)
    /\ banned = loadBanned(disk)
    /\ log = <<>>
    /\ hist = <<>>
    /\ last = NoAnswer
    /\ prev = Stores

\* The clock is read d ms after its previous reading.
Clock(d) == now' = now + d

\* The process is running: the last load of the module did not throw.
Up == ~(last.op = "restart" /\ last.threw)

\* The handler returned by rateLimiterMiddleware, run on request r.  lok1, dok
\* and lok2 say whether the first log append, the ban file write and the second
\* log append succeed.
Middleware(r, d, lok1, dok, lok2) ==
    LET ip == ClientIp(r)
        t == now + d
    IN
    /\ Up
    /\ Len(hist) < MaxOps
    /\ Clock(d)
    /\ prev' = Stores
    /\ IF isBanned(banned, ip)
       THEN /\ last' = [Answer("req", ip, t, 403) EXCEPT
                           !.bannedAt = banned[ip].bannedAt, !.reason = banned[ip].reason]
            /\ log' = appendLog(log, BlockedLine(t, ip), lok1)
            /\ hist' = Append(hist, Op("req", ip, t, 403))
            /\ UNCHANGED <<ipTimestamps, banned, disk>>
       ELSE LET recent == Record(Get(ipTimestamps, ip), t)
                log1 == appendLog(log, RequestLine(t, ip, Len(recent)), lok1)
            IN /\ ipTimestamps' = Set(ipTimestamps, ip, recent)
               /\ IF appendThrows(lok1)
                  THEN /\ log' = log1
                       /\ last' = [Answer("req", ip, t, 0) EXCEPT
                                      !.count = Len(recent), !.threw = TRUE]
                       /\ hist' = Append(hist, Op("req", ip, t, 0))
                       /\ UNCHANGED <<banned, disk>>
                  ELSE IF Exceeds(Len(recent))
                  THEN LET thrown == saveThrows(dok) \/ appendThrows(lok2)
                           status == IF thrown THEN 0 ELSE 429
                       IN
                       /\ banned' = banIp(banned, ip, GateReason, t)
                       /\ disk' = saveBanned(banned', disk, dok)
                       /\ log' = IF saveThrows(dok) THEN log1
                                 ELSE appendLog(log1, LogLine("BAN", t, ip, 0, GateReason), lok2)
                       /\ last' = [Answer("req", ip, t, status) EXCEPT
                                      !.count = Len(recent), !.save = Saved(dok), !.threw = thrown]
                       /\ hist' = Append(hist, [Op("req", ip, t, status) EXCEPT
                                                   !.save = Saved(dok), !.reason = GateReason])
                  ELSE /\ log' = log1
                       /\ last' = [Answer("req", ip, t, 200) EXCEPT !.count = Len(recent)]
                       /\ hist' = Append(hist, Op("req", ip, t, 200))
                       /\ UNCHANGED <<banned, disk>>
    /\ UNCHANGED <<opts, timerDue>>

\* A reaper filter that keeps every timestamp.
FilteredNothing(arr, t) == arr

\* A reaper filter with half the window.
FilteredHalf(arr, t) == Recent(arr, t, WINDOW_MS \div 2)

\* arr.filter((t) => now - t <= WINDOW_MS) in cleanup
Filtered(arr, t) == Recent(arr, t, WINDOW_MS)

\* A reaper that stores what is left of every entry, the empty ones too.
CleanupStoringEmpty(d) ==
    LET t == now + d
    IN
    /\ Up
    /\ t >= timerDue
    /\ Clock(d)
    /\ prev' = Stores
    /\ timerDue' = t + CLEANUP_INTERVAL_MS
    /\ ipTimestamps' = [ip \in DOMAIN ipTimestamps |-> Filtered(ipTimestamps[ip], t)]
    /\ last' = Answer("cleanup", None, t, 0)
    /\ UNCHANGED <<opts, banned, disk, log, hist>>

\* A reaper that also forgets the in-memory bans.
CleanupPurgingBans(d) ==
    LET t == now + d
        kept == {ip \in DOMAIN ipTimestamps : Len(Filtered(ipTimestamps[ip], t)) # 0}
    IN
    /\ Up
    /\ t >= timerDue
    /\ Clock(d)
    /\ prev' = Stores
    /\ timerDue' = t + CLEANUP_INTERVAL_MS
    /\ ipTimestamps' = [ip \in kept |-> Filtered(ipTimestamps[ip], t)]
    /\ banned' = EmptyMap
    /\ last' = Answer("cleanup", None, t, 0)
    /\ UNCHANGED <<opts, disk, log, hist>>

\* cleanup(), run by the interval timer: setInterval(cleanup, CLEANUP_INTERVAL_MS).
\* The process may have been idle for any time before the first instant of the
\* model, so the first run may come at any time; the next one comes no sooner
\* than CLEANUP_INTERVAL_MS after it.
Cleanup(d) ==
    LET t == now + d
        kept == {ip \in DOMAIN ipTimestamps : Len(Filtered(ipTimestamps[ip], t)) # 0}
    IN
    /\ Up
    /\ t >= timerDue
    /\ Clock(d)
    /\ prev' = Stores
    /\ timerDue' = t + CLEANUP_INTERVAL_MS
    /\ ipTimestamps' = [ip \in kept |-> Filtered(ipTimestamps[ip], t)]
    /\ last' = Answer("cleanup", None, t, 0)
    /\ UNCHANGED <<opts, banned, disk, log, hist>>

\* banIp(ip, reason), called through the module's export
BanIpCall(ip, reason, d, dok, lok) ==
    LET t == now + d
        why == ReasonOrDefault(reason)
    IN
    /\ Up
    /\ Len(hist) < MaxOps
    /\ Len(SelectSeq(hist, LAMBDA o : o.op = "ban")) < MaxBanCalls
    /\ Clock(d)
    /\ prev' = Stores
    /\ banned' = banIp(banned, ip, why, t)
    /\ disk' = saveBanned(banned', disk, dok)
    /\ log' = appendLog(log, LogLine("BAN", t, ip, 0, why), lok)
    /\ last' = [Answer("ban", ip, t, 0) EXCEPT !.save = Saved(dok)]
    /\ hist' = Append(hist, [Op("ban", ip, t, 0) EXCEPT !.save = Saved(dok), !.reason = why])
    /\ UNCHANGED <<opts, timerDue, ipTimestamps>>

\* An unban that leaves no line in the log.
UnbanUnlogged(ip, t, dok, lok) ==
    /\ banned' = unbanIp(banned, ip)
    /\ disk' = saveBanned(banned', disk, dok)
    /\ log' = log
    /\ hist' = Append(hist, [Op("unban", ip, t, 0) EXCEPT !.save = Saved(dok)])

\* The body of unbanIp(ip) when banned[ip] is there.
Unban(ip, t, dok, lok) ==
    /\ banned' = unbanIp(banned, ip)
    /\ disk' = saveBanned(banned', disk, dok)
    /\ log' = appendLog(log, LogLine("UNBAN", t, ip, 0, None), lok)
    /\ hist' = Append(hist, [Op("unban", ip, t, 0) EXCEPT !.save = Saved(dok)])

\* unbanIp(ip), called through the module's export
UnbanIpCall(ip, d, dok, lok) ==
    /\ Up
    /\ prev' = Stores
    /\ IF isBanned(banned, ip)
       THEN /\ Len(hist) < MaxOps
            /\ Clock(d)
            /\ Unban(ip, now + d, dok, lok)
            /\ last' = [Answer("unban", ip, now + d, 0) EXCEPT !.ret = TRUE, !.save = Saved(dok)]
            /\ UNCHANGED <<opts, timerDue, ipTimestamps>>
       ELSE /\ d = 0
            /\ last' = Answer("unban", ip, now, 0)
            /\ UNCHANGED <<opts, now, timerDue, ipTimestamps, banned, disk, log, hist>>

\* getStats(): {activeIps: ipTimestamps.size, bannedCount: Object.keys(banned).length}
getStats ==
    [activeIps |-> Cardinality(DOMAIN ipTimestamps), bannedCount |-> Cardinality(DOMAIN banned)]

\* req.headers["x-admin-key"] || req.body?.adminKey || req.query?.adminKey
Provided(areq) ==
    OrStr(areq.hdr, OrStr(IF areq.body.present THEN areq.body.adminKey ELSE None, areq.qkey))

\* Admin checks that compare the secret before looking at the configuration.
AdminGuardAuthFirst(key, areq) ==
    IF ~TruthyStr(Provided(areq)) \/ Provided(areq) # key THEN 401
    ELSE IF ~TruthyStr(key) THEN 500
    ELSE IF ~areq.body.present THEN -1
    ELSE IF ~TruthyStr(areq.body.ip) THEN 400
    ELSE 0

\* Admin checks that let a request without any secret through.
AdminGuardOpenWithoutSecret(key, areq) ==
    IF ~TruthyStr(key) THEN 500
    ELSE IF TruthyStr(Provided(areq)) /\ Provided(areq) # key THEN 401
    ELSE IF ~areq.body.present THEN -1
    ELSE IF ~TruthyStr(areq.body.ip) THEN 400
    ELSE 0

\* The admin handler's checks before it calls unbanIp: the status it answers
\* with, 0 when it goes on to unbanIp, -1 when reading req.body throws.
AdminGuard(key, areq) ==
    IF ~TruthyStr(key) THEN 500
    ELSE IF ~TruthyStr(Provided(areq)) \/ Provided(areq) # key THEN 401
    ELSE IF ~areq.body.present THEN -1
    ELSE IF ~TruthyStr(areq.body.ip) THEN 400
    ELSE 0

\* adminUnbanHandler(req, res), with process.env.ADMIN_KEY = key
AdminUnbanHandler(areq, key, d, dok, lok) ==
    LET g == AdminGuard(key, areq)
        ip == areq.body.ip
        asked == [NoAnswer EXCEPT !.op = "admin", !.key = key, !.areq = areq]
    IN
    /\ Up
    /\ prev' = Stores
    /\ IF g = 0 /\ isBanned(banned, ip)
       THEN /\ Len(hist) < MaxOps
            /\ Clock(d)
            /\ Unban(ip, now + d, dok, lok)
            /\ last' = [asked EXCEPT !.ip = ip, !.at = now + d, !.status = 200,
                                      !.ret = TRUE, !.save = Saved(dok)]
            /\ UNCHANGED <<opts, timerDue, ipTimestamps>>
       ELSE /\ d = 0
            /\ last' = IF g = 0 THEN [asked EXCEPT !.ip = ip, !.at = now, !.status = 404]
                       ELSE IF g = -1 THEN [asked EXCEPT !.at = now, !.threw = TRUE]
                       ELSE [asked EXCEPT !.at = now, !.status = g]
            /\ UNCHANGED <<opts, now, timerDue, ipTimestamps, banned, disk, log, hist>>

\* What a starting process may find at data/banned-ips.json: the file as the
\* previous process left it, or no file, an empty file, a file that is no
\* JSON, a file that cannot be read.
BootStates == {"asleft", "missing", "empty", "corrupt", "unreadable"}

Found(f, boot) == IF boot = "asleft" THEN f ELSE [kind |-> boot, doc |-> {}]

\* The process ends and the module is loaded again d ms later: ensureFiles(),
\* loadBanned(), a new ipTimestamps Map and a new interval timer.  cok: the
\* write that creates a missing ban file succeeds.  When ensureFiles() throws,
\* the import fails and no process runs until the next start.
Restart(d, boot, cok) ==
    LET t == now + d
        found == Found(disk, boot)
    IN
    /\ Len(hist) < MaxOps
    /\ Clock(d)
    /\ prev' = Stores
    /\ ipTimestamps' = EmptyMap
    /\ timerDue' = t + CLEANUP_INTERVAL_MS
    /\ hist' = Append(hist, Op("restart", None, t, 0))
    /\ IF ensureThrows(found, cok)
       THEN /\ disk' = found
            /\ banned' = EmptyMap
            /\ last' = [Answer("restart", None, t, 0) EXCEPT !.boot = boot, !.threw = TRUE]
       ELSE /\ disk' = ensureFiles(found)
            /\ banned' = loadBanned(disk')
            /\ last' = [Answer("restart", None, t, 0) EXCEPT !.boot = boot]
    /\ UNCHANGED <<opts, log>>

-----------------------------------------------------------------------------
(* Specifications *)

\* The gate, the reaper and the exported ban and unban functions; every write
\* to the ban file and to the log succeeds.
Next ==
    \/ \E a \in Arrivals : Middleware(a.req, a.d, TRUE, TRUE, TRUE)
    \/ \E d \in CleanupDeltas : Cleanup(d)
    \/ \E ip \in IPs, reason \in ManualReasons, d \in BanDeltas :
          BanIpCall(ip, reason, d, TRUE, TRUE)
    \/ \E ip \in IPs, d \in UnbanDeltas : UnbanIpCall(ip, d, TRUE, TRUE)

Spec == Init /\ [][Next]_vars

\* The admin endpoint beside the gate: requests arrive in a burst.
AdminArrivals == {[req |-> ReqA, d |-> 0], [req |-> ReqA, d |-> 100], [req |-> ReqB, d |-> 0]}

NextAdmin ==
    \/ \E a \in AdminArrivals : Middleware(a.req, a.d, TRUE, TRUE, TRUE)
    \/ \E ip \in IPs, d \in BanDeltas : BanIpCall(ip, "manual", d, TRUE, TRUE)
    \/ \E ip \in IPs : UnbanIpCall(ip, 0, TRUE, TRUE)
    \/ \E areq \in AdminRequests, key \in AdminKeys, d \in UnbanDeltas :
          AdminUnbanHandler(areq, key, d, TRUE, TRUE)

SpecAdmin == Init /\ [][NextAdmin]_vars

\* Processes that end and start again, with writes of the ban file that fail.
RestartDeltas == {100}

NextRestart ==
    \/ \E a \in AdminArrivals, dok \in BOOLEAN : Middleware(a.req, a.d, TRUE, dok, TRUE)
    \/ \E ip \in IPs, d \in BanDeltas, dok \in BOOLEAN : BanIpCall(ip, "manual", d, dok, TRUE)
    \/ \E ip \in IPs, dok \in BOOLEAN : UnbanIpCall(ip, 0, dok, TRUE)
    \/ \E d \in RestartDeltas, boot \in BootStates, cok \in BOOLEAN : Restart(d, boot, cok)

SpecRestart == Init /\ [][NextRestart]_vars

\* Every writer of the request log, with appends that fail.
AuditRequests ==
    { [hdr |-> "s3cret", body |-> Body(None, "A"), qkey |-> None],
      [hdr |-> "wrong", body |-> Body(None, "A"), qkey |-> None],
      [hdr |-> "s3cret", body |-> Body(None, None), qkey |-> None] }

NextAudit ==
    \/ \E a \in AdminArrivals, lok \in BOOLEAN : Middleware(a.req, a.d, lok, TRUE, lok)
    \/ Cleanup(10001)
    \/ \E ip \in IPs, d \in BanDeltas : BanIpCall(ip, "manual", d, TRUE, TRUE)
    \/ \E ip \in IPs, lok \in BOOLEAN : UnbanIpCall(ip, 0, TRUE, lok)
    \/ \E areq \in AuditRequests, key \in {None, "s3cret"} :
          AdminUnbanHandler(areq, key, 0, TRUE, TRUE)

SpecAudit == Init /\ [][NextAudit]_vars

\* Requests and reaper runs at the edges of the gate's window: at the same
\* instant as the previous event, a whole window after it, and one ms more.
BoundaryDeltas == {0, windowMs, windowMs + 1}

NextBoundary ==
    \/ \E r \in {ReqA, ReqB}, d \in BoundaryDeltas : Middleware(r, d, TRUE, TRUE, TRUE)
    \/ \E d \in BoundaryDeltas : Cleanup(d)

SpecBoundary == Init /\ [][NextBoundary]_vars

\* Gates with the window of the installed gate, rateLimiterMiddleware(): no
\* windowMs option, and the default or a small maxRequests.
InstalledWindowOptions ==
    { [maxRequests |-> 0, windowMs |-> 0],
      [maxRequests |-> 2, windowMs |-> 0] }

InitInstalled ==
    /\ opts \in InstalledWindowOptions
    /\ now = 0
    /\ timerDue = 0
    /\ ipTimestamps = EmptyMap
    /\ disk = ensureFiles(MissingFile)
    /\ banned = loadBanned(disk)
    /\ log = <<>>
    /\ hist = <<>>
    /\ last = NoAnswer
    /\ prev = Stores

SpecInstalled == InitInstalled /\ [][Next]_vars

\* Two clients whose bans and unbans share the one ban file, with writes that
\* fail, in processes that start again from the file as it was left.
NextShared ==
    \/ \E a \in AdminArrivals, dok \in BOOLEAN : Middleware(a.req, a.d, TRUE, dok, TRUE)
    \/ \E ip \in IPs, d \in BanDeltas, dok \in BOOLEAN : BanIpCall(ip, "manual", d, dok, TRUE)
    \/ \E ip \in IPs, dok \in BOOLEAN : UnbanIpCall(ip, 0, dok, TRUE)
    \/ \E d \in RestartDeltas : Restart(d, "asleft", TRUE)

SpecShared == Init /\ [][NextShared]_vars

\* Requests whose every write can fail: the append of the request's line, the
\* write of the ban file, the append of the ban's line.
NextFaults ==
    \/ \E a \in AdminArrivals, lok1 \in BOOLEAN, dok \in BOOLEAN, lok2 \in BOOLEAN :
          Middleware(a.req, a.d, lok1, dok, lok2)
    \/ \E ip \in IPs : UnbanIpCall(ip, 0, TRUE, TRUE)

SpecFaults == Init /\ [][NextFaults]_vars

\* Traffic that stops within the first timer period, and the interval timer
\* that goes on firing: its first run comes early or after a whole period,
\* every later one a period after the one before.
TrafficEnd == CLEANUP_INTERVAL_MS

ReaperEnd == 2 * CLEANUP_INTERVAL_MS

Traffic ==
    /\ now < TrafficEnd
    /\ \E a \in AdminArrivals : Middleware(a.req, a.d, TRUE, TRUE, TRUE)

ReaperRun ==
    /\ now < ReaperEnd
    /\ \E d \in {100, CLEANUP_INTERVAL_MS} : Cleanup(d)

NextLive == Traffic \/ ReaperRun

SpecLive == Init /\ [][NextLive]_vars /\ WF_vars(ReaperRun)

-----------------------------------------------------------------------------
(* Vocabulary of the properties *)

\* The requests of ip that reached the sliding window (were not turned away as
\* already banned), as positions in hist.
Admitted(ip) ==
    {i \in 1..Len(hist) : hist[i].op = "req" /\ hist[i].ip = ip /\ hist[i].status # 403}

\* Those among them that arrived within the gate's window ending at instant t.
InWindow(ip, t) == {i \in Admitted(ip) : t - hist[i].t <= windowMs}

\* The last operation was a request that reached the sliding window.
Decided == last.op = "req" /\ last.status # 403

\* The operation on ip before the last operation of hist, "none" if there is none.
OpBefore(ip) ==
    LET before == {i \in 1..(Len(hist) - 1) : hist[i].ip = ip}
    IN IF before = {} THEN "none"
       ELSE hist[CHOOSE i \in before : \A j \in before : j <= i].op

-----------------------------------------------------------------------------
(* C1 *)

-----------------------------------------------------------------------------
(* C2 *)

\* C2: a ban record stays until an unban of that client succeeds, whatever else
\* happens meanwhile, and every request of a banned client is turned away as
\* already banned.
C2_BanIsPermanent ==
    \A ip \in DOMAIN prev.banned :
        /\ isBanned(banned, ip) \/ (last.op \in {"unban", "admin"} /\ last.ip = ip /\ last.ret)
        /\ (last.op = "req" /\ last.ip = ip) => last.status = 403

\* A banned client asks again, longer than the window after its ban and after
\* the reaper has run, and is turned away.
C2_Witness ==
    /\ last.op = "req" /\ last.status = 403
    /\ timerDue > 0
    /\ \E i \in 1..Len(hist) :
          hist[i].ip = last.ip /\ hist[i].status = 429 /\ last.at - hist[i].t > windowMs

-----------------------------------------------------------------------------
(* C3 *)

\* C3: the first request of a client after its unban starts a new window: its
\* count is 1 and it is allowed.
C3_FreshAfterUnban ==
    (last.op = "req" /\ OpBefore(last.ip) = "unban") => last.count = 1 /\ last.status = 200

-----------------------------------------------------------------------------
(* C4 *)

\* The last operation was a call of unbanIp, directly or by the admin handler.
UnbanCalled == last.op = "unban" \/ (last.op = "admin" /\ last.status \in {200, 404})

\* What that call reported: true / "unbanned", or false / "not found".
UnbanFound == IF last.op = "unban" THEN last.ret ELSE last.status = 200

\* C4: unban of a client without a ban record reports false / not found and
\* changes neither the ban object, nor the ban file, nor the window tracker,
\* nor the log; unban of a banned client reports true and removes that
\* client's record and no other.
C4_UnbanOutcome ==
    UnbanCalled =>
        IF ~isBanned(prev.banned, last.ip)
        THEN /\ ~UnbanFound
             /\ banned = prev.banned
             /\ disk = prev.disk
             /\ ipTimestamps = prev.ipTimestamps
             /\ log = prev.log
        ELSE /\ UnbanFound
             /\ DOMAIN banned = DOMAIN prev.banned \ {last.ip}
             /\ \A other \in DOMAIN banned : banned[other] = prev.banned[other]

\* The admin handler reports "not found" for a client that is not banned while
\* another client is banned and the tracker and the log hold entries.
C4_Witness ==
    /\ last.op = "admin" /\ last.status = 404
    /\ DOMAIN banned # {}
    /\ DOMAIN ipTimestamps # {}
    /\ Len(log) > 0

-----------------------------------------------------------------------------
(* C5 *)

\* C5: a request of a client that is not banned, all of whose earlier requests
\* are older than the window, is allowed with count 1.
C5_ExpiredNeverCount ==
    (Decided /\ InWindow(last.ip, last.at) = {Len(hist)}) =>
        last.status = 200 /\ last.count = 1

\* maxRequests requests, then silence for longer than the window, a reaper run,
\* and one more request.
C5_Witness ==
    /\ Decided /\ last.count = 1 /\ last.status = 200
    /\ Cardinality(Admitted(last.ip)) = maxReq + 1
    /\ InWindow(last.ip, last.at) = {Len(hist)}
    /\ timerDue > 0

-----------------------------------------------------------------------------
(* C6 *)

\* The operations on client A, in order.
OpsOfA == SelectSeq(hist, LAMBDA o : o.ip = "A")

ScenarioTimes == <<0, 100, 200, 300>>

ScenarioStatus == <<200, 200, 200, 429>>

\* The ban reason the gate is to give under each of the modelled options.
ExpectedReason ==
    IF opts = [maxRequests |-> 3, windowMs |-> 1000] THEN "exceeded_3_per_1000ms"
    ELSE IF opts = [maxRequests |-> 1, windowMs |-> 20000] THEN "exceeded_1_per_20000ms"
    ELSE "exceeded_25_per_10000ms"

\* C6: with maxRequests = 3 and windowMs = 1000, requests of A at 0, 100, 200
\* and 300 are allowed, allowed, allowed and denied, and A is then banned for
\* "exceeded_3_per_1000ms"; whenever the gate bans, the reason is
\* "exceeded_<maxRequests>_per_<windowMs>ms".
C6_Scenario ==
    /\ ( /\ opts = [maxRequests |-> 3, windowMs |-> 1000]
         /\ Len(OpsOfA) <= 4
         /\ \A i \in 1..Len(OpsOfA) : OpsOfA[i].op = "req" /\ OpsOfA[i].t = ScenarioTimes[i] )
       => /\ \A i \in 1..Len(OpsOfA) : OpsOfA[i].status = ScenarioStatus[i]
          /\ Len(OpsOfA) = 4 =>
                isBanned(banned, "A") /\ banned["A"].reason = "exceeded_3_per_1000ms"
    /\ (last.op = "req" /\ last.status = 429) =>
          isBanned(banned, last.ip) /\ banned[last.ip].reason = ExpectedReason

C6_Witness ==
    /\ opts = [maxRequests |-> 3, windowMs |-> 1000]
    /\ Len(OpsOfA) = 4
    /\ \A i \in 1..4 : OpsOfA[i].op = "req" /\ OpsOfA[i].t = ScenarioTimes[i]
    /\ last.op = "req" /\ last.ip = "A" /\ last.at = 300 /\ last.status = 429

-----------------------------------------------------------------------------
(* C7 *)

Missing(v) == v \in {None, ""}

\* The secret an admin request provides: the header's, else the body's, else
\* the query's.
Sent(r) ==
    IF ~Missing(r.hdr) THEN r.hdr
    ELSE IF r.body.present /\ ~Missing(r.body.adminKey) THEN r.body.adminKey
    ELSE r.qkey

\* C7: without a configured secret the admin handler answers "misconfigured"
\* (500) whatever is sent; with one, a missing or different secret gets
\* "unauthorized" (401); only the matching secret reaches the unban, which
\* answers "unbanned" (200) or "not found" (404).
C7_AdminOutcomes ==
    last.op = "admin" =>
        LET configured == ~Missing(last.key)
            matches == ~Missing(Sent(last.areq)) /\ Sent(last.areq) = last.key
            named == last.areq.body.present /\ ~Missing(last.areq.body.ip)
        IN /\ ~configured => last.status = 500
           /\ (configured /\ ~matches) => last.status = 401
           /\ last.status \in {200, 404} => configured /\ matches
           /\ (configured /\ matches /\ named) =>
                 /\ last.status = (IF isBanned(prev.banned, last.ip) THEN 200 ELSE 404)
                 /\ ~isBanned(banned, last.ip)

\* No secret is configured and the request carries none: the answer is 500.
C7_Witness ==
    /\ last.op = "admin" /\ last.status = 500
    /\ last.key = None
    /\ Missing(Sent(last.areq))

-----------------------------------------------------------------------------
(* C8 *)

\* C8: banIp on a client that already has a ban record leaves the record's
\* bannedAt and reason as they were.
C8_FirstBanWins ==
    (last.op = "ban" /\ isBanned(prev.banned, last.ip)) =>
        /\ banned[last.ip].bannedAt = prev.banned[last.ip].bannedAt
        /\ banned[last.ip].reason = prev.banned[last.ip].reason

-----------------------------------------------------------------------------
(* C9 *)

\* The timestamps of arr that are not expired at instant t: not older than the
\* gate's window.
Unexpired(arr, t) == SelectSeq(arr, LAMBDA x : t - x <= windowMs)

-----------------------------------------------------------------------------
(* C10 *)

\* C10: a request is denied exactly when its client has a ban record once the
\* decision has returned.
C10_DeniedIffBanned ==
    last.op = "req" =>
        /\ last.status \in {200, 403, 429}
        /\ last.status # 200 <=> isBanned(banned, last.ip)

\* A request is allowed while another client is banned, right after its own
\* client was unbanned.
C10_Witness ==
    /\ last.op = "req" /\ last.status = 200
    /\ OpBefore(last.ip) = "unban"
    /\ DOMAIN banned # {}

-----------------------------------------------------------------------------
(* C11 *)

\* The positions in hist of the operations that wrote the ban file.
Flushes == {i \in 1..Len(hist) : hist[i].save # "none"}

\* The last write of the ban file did not fail.
Synced == Flushes = {} \/ hist[CHOOSE i \in Flushes : \A j \in Flushes : j <= i].save = "ok"

\* C11: when a ban or an unban has written the ban file, the file's document
\* parses to the ban object in memory; a process that starts from the file left
\* behind after such a write has the records the previous process had: the
\* same clients, bannedAt and reason.
C11_BansSurviveRestart ==
    /\ last.save = "ok" => disk.kind = "json" /\ Parse(disk.doc) = banned
    /\ (last.op = "restart" /\ last.boot = "asleft" /\ Synced) =>
          /\ DOMAIN banned = DOMAIN prev.banned
          /\ \A ip \in DOMAIN banned :
                /\ banned[ip].bannedAt = prev.banned[ip].bannedAt
                /\ banned[ip].reason = prev.banned[ip].reason

\* A process starts from a file that holds two records, written after an
\* earlier write had failed.
C11_Witness ==
    /\ last.op = "restart" /\ last.boot = "asleft" /\ Synced
    /\ Cardinality(DOMAIN banned) = 2
    /\ \E i \in Flushes : hist[i].save = "failed"

-----------------------------------------------------------------------------
(* C12 *)

\* The allowed requests of ip that arrived within the gate's window ending at
\* instant t, as positions in hist.
AllowedInWindow(ip, t) ==
    {i \in 1..Len(hist) :
        hist[i].op = "req" /\ hist[i].ip = ip /\ hist[i].status = 200 /\ t - hist[i].t <= windowMs}

-----------------------------------------------------------------------------
(* C13 *)

\* The requests of ip whose ban could not be written to the file and which no
\* unban of ip and no restart has followed, as positions in hist.
UnsavedBans(ip) ==
    {i \in 1..(Len(hist) - 1) :
        /\ hist[i].op = "req" /\ hist[i].ip = ip /\ hist[i].save = "failed"
        /\ \A j \in (i + 1)..(Len(hist) - 1) :
              hist[j].op # "restart" /\ ~(hist[j].op = "unban" /\ hist[j].ip = ip)}

\* C13: when the write of the ban file fails in the request that crosses the
\* threshold, that request is still answered 429, nothing is thrown, the ban
\* record is in memory, and every later request of that client in the same
\* process is answered 403.
C13_UnsavedBanHolds ==
    /\ (last.op = "req" /\ last.save = "failed") =>
          last.status = 429 /\ ~last.threw /\ isBanned(banned, last.ip)
    /\ (last.op = "req" /\ UnsavedBans(last.ip) # {}) => last.status = 403 /\ ~last.threw

\* A client whose ban was not written asks again and is turned away.
C13_Witness ==
    /\ last.op = "req" /\ last.status = 403
    /\ UnsavedBans(last.ip) # {}
    /\ disk.doc = {}

-----------------------------------------------------------------------------
(* C14 *)

IsPrefix(a, b) == Len(a) <= Len(b) /\ SubSeq(b, 1, Len(a)) = a

\* C14: the log before any operation is a prefix of the log after it: lines
\* are only ever added at the end.
C14_LogAppendOnly == IsPrefix(prev.log, log)

\* A rejected admin call and a reaper run have happened and the log holds the
\* lines of a request, a ban and an unban.
C14_Witness ==
    /\ last.op = "admin" /\ last.status = 401
    /\ timerDue > 0
    /\ \E i, j, k \in 1..Len(log) :
          i < j /\ j < k /\ log[i].kind = "REQ" /\ log[j].kind = "BAN" /\ log[k].kind = "UNBAN"

-----------------------------------------------------------------------------
(* C15 *)

\* The operations before the last one that banned ip, as positions in hist.
Bans(ip) ==
    {i \in 1..(Len(hist) - 1) :
        hist[i].ip = ip /\ (hist[i].op = "ban" \/ (hist[i].op = "req" /\ hist[i].status = 429))}

\* Those of them that imposed the ban: ip had no record just before, that is,
\* the operation on ip before it, if any, was an unban.
Imposed(ip) ==
    {i \in Bans(ip) :
        \A j \in Bans(ip) : j < i => \E k \in (j + 1)..(i - 1) : hist[k].op = "unban" /\ hist[k].ip = ip}

\* The operation that imposed the ban ip is under.
ImposedLast(ip) == CHOOSE i \in Imposed(ip) : \A j \in Imposed(ip) : j <= i

\* C15: a request answered 403 found a ban record and carries the bannedAt
\* and reason the ban was imposed with; a request answered 429 found no ban
\* record and left one.
C15_DenialsDistinguishable ==
    last.op = "req" =>
        /\ last.status = 403 =>
              /\ isBanned(prev.banned, last.ip)
              /\ Imposed(last.ip) # {}
              /\ last.bannedAt = ISO(hist[ImposedLast(last.ip)].t)
              /\ last.reason = hist[ImposedLast(last.ip)].reason
        /\ last.status = 429 => ~isBanned(prev.banned, last.ip) /\ isBanned(banned, last.ip)

-----------------------------------------------------------------------------
(* C16 *)

\* C16: a process that finds the ban file missing, empty, unparseable or
\* unreadable starts all the same, with an empty ban object, and the first
\* request after that start is decided on its window alone: count 1, allowed.
C16_StartupNeverFails ==
    /\ (last.op = "restart" /\ last.boot # "asleft") => ~last.threw /\ banned = EmptyMap
    /\ ( /\ last.op = "req" /\ Len(hist) > 1 /\ hist[Len(hist) - 1].op = "restart"
         /\ prev.banned = EmptyMap )
       => last.status = 200 /\ last.count = 1

-----------------------------------------------------------------------------
(* C17 *)

\* C17: a request of a banned client adds one BLOCKED_REQ line for that client
\* to the log and nothing else, and leaves the window tracker, the ban object
\* and the ban file as they were.
C17_BlockedRequestFrame ==
    (last.op = "req" /\ last.status = 403) =>
        /\ ipTimestamps = prev.ipTimestamps
        /\ banned = prev.banned
        /\ disk = prev.disk
        /\ Len(log) = Len(prev.log) + 1
        /\ IsPrefix(prev.log, log)
        /\ log[Len(log)].kind = "BLOCKED_REQ"
        /\ log[Len(log)].ip = last.ip

\* The blocked client still has timestamps in the tracker, and so has another.
C17_Witness ==
    /\ last.op = "req" /\ last.status = 403
    /\ DOMAIN ipTimestamps = {"A", "B"}

-----------------------------------------------------------------------------
(* C18 *)

\* What a request that reached the sliding window added to the log: one REQ
\* line with its count, then, exactly when the count exceeds maxRequests and
\* with the ban record in place, one BAN line.
RequestLogged ==
    Decided =>
        LET n == Len(prev.log) IN
        /\ IsPrefix(prev.log, log)
        /\ Len(log) = n + (IF last.status = 429 THEN 2 ELSE 1)
        /\ log[n + 1].kind = "REQ" /\ log[n + 1].ip = last.ip /\ log[n + 1].count = last.count
        /\ last.status = 429 <=> last.count > maxReq
        /\ last.status = 429 =>
              /\ log[n + 2].kind = "BAN" /\ log[n + 2].ip = last.ip
              /\ isBanned(banned, last.ip)

\* Line i of the log is a BAN line that directly follows a REQ line of the same
\* client with a count above maxRequests.
FollowsRequest(i) ==
    /\ i > 1
    /\ log[i - 1].kind = "REQ" /\ log[i - 1].ip = log[i].ip /\ log[i - 1].count > maxReq

\* Line i of the log was written by a call of the exported banIp.
WrittenByBanCall(i) ==
    \E j \in 1..Len(hist) :
        /\ hist[j].op = "ban" /\ hist[j].ip = log[i].ip
        /\ ISO(hist[j].t) = log[i].at /\ hist[j].reason = log[i].reason

-----------------------------------------------------------------------------
(* C19 *)

\* Every timestamp of arr lies within the gate's window ending at instant t,
\* and arr is in arrival order.
WithinWindow(arr, t) ==
    /\ \A k \in 1..Len(arr) : t - arr[k] <= windowMs
    /\ \A k \in 1..(Len(arr) - 1) : arr[k] <= arr[k + 1]

Elements(arr) == {arr[k] : k \in 1..Len(arr)}

-----------------------------------------------------------------------------
(* C20 *)

\* How often the timestamp v occurs in arr.
Occurrences(arr, v) == Cardinality({k \in 1..Len(arr) : arr[k] = v})

\* The requests of ip recorded at instant v, as positions in hist.
RecordedAt(ip, v) == {i \in Admitted(ip) : hist[i].t = v}

-----------------------------------------------------------------------------
(* C21 *)

-----------------------------------------------------------------------------
(* C22 *)

\* The lines of the given kind that the log holds for ip.
Lines(l, kind, ip) == {i \in 1..Len(l) : l[i].kind = kind /\ l[i].ip = ip}

\* The calls of the exported banIp on ip, as positions in hist.
BanCalls(ip) == {i \in 1..Len(hist) : hist[i].op = "ban" /\ hist[i].ip = ip}

\* C22: an unban that removes a record adds one UNBAN line for its client,
\* with the record gone and the file written; an unban that finds no record,
\* and every other operation, adds no UNBAN line; so a client never has more
\* UNBAN lines than BAN lines plus direct bans.
C22_UnbanLogged ==
    /\ IF UnbanCalled /\ UnbanFound
       THEN /\ Len(log) = Len(prev.log) + 1
            /\ IsPrefix(prev.log, log)
            /\ log[Len(log)].kind = "UNBAN" /\ log[Len(log)].ip = last.ip
            /\ ~isBanned(banned, last.ip)
            /\ Parse(disk.doc) = banned
       ELSE \A ip \in IPs : Lines(log, "UNBAN", ip) = Lines(prev.log, "UNBAN", ip)
    /\ UnbanCalled /\ ~UnbanFound => log = prev.log
    /\ \A ip \in IPs :
          Cardinality(Lines(log, "UNBAN", ip))
              <= Cardinality(Lines(log, "BAN", ip)) + Cardinality(BanCalls(ip))

\* The admin handler lifts a ban that the gate imposed: the client now has as
\* many UNBAN lines as BAN lines, and no direct ban.
C22_Witness ==
    /\ last.op = "admin" /\ last.status = 200
    /\ BanCalls(last.ip) = {}
    /\ Cardinality(Lines(log, "UNBAN", last.ip)) = Cardinality(Lines(log, "BAN", last.ip))

-----------------------------------------------------------------------------
(* C23 *)

\* C23: an admin request that does not end in an unban is answered with an
\* explicit status (500, 401, 400 or 404), throws nothing, and leaves the ban
\* object, the ban file, the window tracker and the log as they were; with the
\* right secret and no client named the answer is 400.
C23_RejectedAdminRequest ==
    (last.op = "admin" /\ last.status # 200) =>
        /\ ~last.threw
        /\ last.status \in {500, 401, 400, 404}
        /\ banned = prev.banned /\ disk = prev.disk
        /\ ipTimestamps = prev.ipTimestamps /\ log = prev.log
        /\ ( /\ ~Missing(last.key) /\ Sent(last.areq) = last.key
             /\ (~last.areq.body.present \/ Missing(last.areq.body.ip)) )
           => last.status = 400

-----------------------------------------------------------------------------
(* C24 *)

\* The window tracker after the last operation, from the tracker before it and
\* the operation's inputs alone.
TrackerAfter ==
    IF last.op = "req" /\ ~isBanned(prev.banned, last.ip)
    THEN Set(prev.ipTimestamps, last.ip,
             SelectSeq(Append(Get(prev.ipTimestamps, last.ip), last.at),
                       LAMBDA x : last.at - x <= windowMs))
    ELSE IF last.op = "cleanup"
    THEN LET left(ip) == SelectSeq(prev.ipTimestamps[ip], LAMBDA x : last.at - x <= WINDOW_MS)
         IN [ip \in {k \in DOMAIN prev.ipTimestamps : left(k) # <<>>} |-> left(ip)]
    ELSE prev.ipTimestamps

\* The status of the last request, from the stores before it and its inputs.
StatusAfter ==
    IF isBanned(prev.banned, last.ip) THEN 403
    ELSE IF Len(TrackerAfter[last.ip]) > maxReq THEN 429 ELSE 200

\* The ban object after the last operation, likewise.
BannedAfter ==
    IF last.op = "req" /\ StatusAfter = 429
    THEN Set(prev.banned, last.ip,
             [bannedAt |-> ISO(last.at), reason |-> GateReason, by |-> "rateLimiter"])
    ELSE IF last.op = "ban"
    THEN Set(prev.banned, last.ip,
             [bannedAt |-> ISO(last.at), reason |-> hist[Len(hist)].reason, by |-> "rateLimiter"])
    ELSE IF last.op \in {"unban", "admin"} /\ last.ip \in IPs /\ last.status \in {0, 200, 404}
    THEN [k \in DOMAIN prev.banned \ {last.ip} |-> prev.banned[k]]
    ELSE prev.banned

\* C24: an append to the log that fails is never thrown on, and what an
\* operation answers and leaves in the window tracker, the ban object and the
\* ban file follows from the stores before it and its inputs, whether the
\* appends succeed or fail.
C24_LogFailureHarmless ==
    last.op # "init" =>
        /\ ~last.threw
        /\ ipTimestamps = TrackerAfter
        /\ banned = BannedAfter
        /\ Parse(disk.doc) = banned
        /\ last.op = "req" => last.status = StatusAfter

\* The request that crosses the threshold finds the log unwritable: it is
\* answered 429 and the ban is in memory and in the file, with no line added.
C24_Witness ==
    /\ last.op = "req" /\ last.status = 429
    /\ log = prev.log
    /\ isBanned(banned, last.ip) /\ Parse(disk.doc) = banned

-----------------------------------------------------------------------------
(* C25 *)

\* C25: for a gate with the installed window, reaper runs change no count and
\* no decision: the count of a request is the number of its client's recorded
\* requests within the window, whatever reaper runs came in between, and the
\* reaper removes exactly the timestamps the gate would discard at that
\* instant.
C25_ReaperTransparent ==
    /\ Decided =>
          /\ last.count = Cardinality(InWindow(last.ip, last.at))
          /\ last.status = (IF last.count > maxReq THEN 429 ELSE 200)
    /\ last.op = "cleanup" =>
          \A ip \in DOMAIN prev.ipTimestamps :
              Get(ipTimestamps, ip) = Unexpired(prev.ipTimestamps[ip], last.at)

\* A request crosses the threshold at the instant of a reaper run, among the
\* requests of another client.
C25_Witness ==
    /\ last.op = "req" /\ last.status = 429 /\ last.count = 3
    /\ timerDue = last.at + CLEANUP_INTERVAL_MS
    /\ \E i \in 1..Len(hist) : hist[i].op = "req" /\ hist[i].ip # last.ip

-----------------------------------------------------------------------------
(* C26 *)

\* C26: with the reaper running on, the entry of every client, banned or not,
\* is eventually removed, and once the traffic has stopped the tracker is
\* eventually empty for good.
C26_EntriesReclaimed ==
    /\ \A ip \in IPs : (ip \in DOMAIN ipTimestamps) ~> (ip \notin DOMAIN ipTimestamps)
    /\ <>[](DOMAIN ipTimestamps = {})

\* A reaper run has removed the entry of a client the gate had banned, after
\* an earlier run had kept it.
C26_Witness ==
    /\ last.op = "cleanup"
    /\ last.at >= CLEANUP_INTERVAL_MS + 100
    /\ \E ip \in DOMAIN prev.ipTimestamps :
          /\ ip \notin DOMAIN ipTimestamps
          /\ isBanned(banned, ip)
          /\ banned[ip].reason = GateReason

-----------------------------------------------------------------------------
(* C27 *)

\* The last start of a process before the last operation, 0 if there is none.
LastRestart ==
    LET starts == {i \in 1..(Len(hist) - 1) : hist[i].op = "restart"}
    IN IF starts = {} THEN 0 ELSE CHOOSE i \in starts : \A j \in starts : j <= i

\* The bans and unbans of ip before the last operation.
OwnFlushes(ip) == {i \in 1..(Len(hist) - 1) : hist[i].ip = ip /\ hist[i].save # "none"}

Latest(S) == CHOOSE i \in S : \A j \in S : j <= i

\* Whether ip is banned when the last operation begins, told from the
\* operations of ip alone and the starts of the process: by its latest ban or
\* unban in this process, or else by the latest one it wrote to the file.
OwnBanned(ip) ==
    LET since == {i \in OwnFlushes(ip) : i > LastRestart}
        saved == {i \in OwnFlushes(ip) : i < LastRestart /\ hist[i].save = "ok"}
    IN IF since # {} THEN hist[Latest(since)].op # "unban"
       ELSE saved # {} /\ hist[Latest(saved)].op # "unban"

\* The count of ip's request told from the requests of ip alone: those this
\* process admitted within the window.
OwnCount(ip, t) == Cardinality({i \in InWindow(ip, t) : i > LastRestart})

\* A request, ban or unban of one client leaves the other clients' tracker
\* entries and ban records as they were.
OthersUntouched ==
    last.op \in {"req", "ban", "unban"} =>
        \A ip \in IPs \ {last.ip} :
            /\ Get(ipTimestamps, ip) = Get(prev.ipTimestamps, ip)
            /\ isBanned(banned, ip) = isBanned(prev.banned, ip)
            /\ isBanned(banned, ip) => banned[ip] = prev.banned[ip]

\* No write of the ban file made for ip has failed.
OwnWritesDone(ip) == \A i \in OwnFlushes(ip) : hist[i].save = "ok"

-----------------------------------------------------------------------------
(* C28 *)

\* C28: every request through the gate ends with one outcome, passed on (200
\* here), turned away as banned (403) or as over the limit (429), and nothing
\* thrown, also when the writes of the ban file and of the log fail; and no
\* step is done twice: the instant is recorded once, a banned request changes
\* neither store, and the log grows by at most one line, two for a ban.
C28_OneOutcome ==
    last.op = "req" =>
        /\ last.status \in {200, 403, 429}
        /\ ~last.threw
        /\ IsPrefix(prev.log, log)
        /\ Len(log) <= Len(prev.log) + (IF last.status = 429 THEN 2 ELSE 1)
        /\ last.status = 403 =>
              ipTimestamps = prev.ipTimestamps /\ banned = prev.banned /\ disk = prev.disk
        /\ last.status # 403 =>
              /\ Occurrences(ipTimestamps[last.ip], last.at)
                    = Occurrences(Get(prev.ipTimestamps, last.ip), last.at) + 1
              /\ Len(ipTimestamps[last.ip]) <= Len(Get(prev.ipTimestamps, last.ip)) + 1
        /\ last.status = 200 => banned = prev.banned /\ disk = prev.disk

\* A request crosses the threshold while the ban file and the log cannot be
\* written, and is answered 429.
C28_Witness ==
    /\ last.op = "req" /\ last.status = 429
    /\ last.save = "failed"
    /\ log = prev.log
    /\ disk = prev.disk

-----------------------------------------------------------------------------
(* C29 *)

\* The tracker entries the last operation created.
Created == DOMAIN ipTimestamps \ DOMAIN prev.ipTimestamps

\* C29: no tracker entry is empty; an entry is created only by a request that
\* is not turned away as banned, and then holds that request's instant; the
\* reaper leaves no entry without a timestamp; so the activeIps of getStats() is
\* the number of clients with at least one retained timestamp.
C29_NoEmptyEntry ==
    /\ \A ip \in DOMAIN ipTimestamps : Len(ipTimestamps[ip]) > 0
    /\ Created # {} =>
          /\ last.op = "req" /\ last.status # 403
          /\ Created = {last.ip}
          /\ last.at \in Elements(ipTimestamps[last.ip])
    /\ getStats.activeIps = Cardinality({ip \in IPs : Len(Get(ipTimestamps, ip)) > 0})

\* A reaper run has deleted the entry of one client and kept that of another.
C29_Witness ==
    /\ last.op = "cleanup"
    /\ DOMAIN ipTimestamps # {}
    /\ DOMAIN ipTimestamps # DOMAIN prev.ipTimestamps
    /\ getStats.activeIps = 1

-----------------------------------------------------------------------------
(* C30 *)

\* The last operation was an admin request that did not carry the configured
\* secret: none is configured, none was sent, or a wrong one.
Unauthorized ==
    /\ last.op = "admin"
    /\ \/ ~TruthyStr(last.key)
       \/ ~TruthyStr(Provided(last.areq))
       \/ Provided(last.areq) # last.key

\* C30: the answer to an admin request without the configured secret follows
\* from the configuration alone, 500 when no secret is configured and 401
\* otherwise, whichever clients are banned and whichever client the request
\* names; it carries nothing of a ban record and changes no store.
C30_NoLeak ==
    Unauthorized =>
        /\ last.status = (IF ~TruthyStr(last.key) THEN 500 ELSE 401)
        /\ ~last.threw /\ ~last.ret
        /\ last.ip = None /\ last.bannedAt = None /\ last.reason = None
        /\ banned = prev.banned /\ disk = prev.disk /\ log = prev.log

\* A request with a wrong secret names a banned client and is answered 401
\* while another client is not banned.
C30_Witness ==
    /\ Unauthorized
    /\ last.status = 401
    /\ last.areq.body.present
    /\ isBanned(banned, last.areq.body.ip)
    /\ DOMAIN banned # IPs

====
